---- MODULE Spec2Model ----
(***************************************************************************)
(* A model of tinky-alert: the Alert component (src/components/Alert.tsx)  *)
(* and its default theme (src/themes/alert-theme.tsx).                     *)
(*                                                                         *)
(* JavaScript values that may be of several types (a colour that may be    *)
(* undefined, a title that may be absent, children that may be a string or *)
(* an element) are pairs <<type, payload>>.  Glyphs are written by their   *)
(* code points ("U+2714"), so that two glyphs that look alike stay         *)
(* different values.                                                       *)
(***************************************************************************)
EXTENDS Naturals, Sequences, FiniteSets, TLC

VARIABLES
    unicodeSupported,   \* capability of the terminal, read by useFigures()
    theme,              \* theme installed by the enclosing ThemeProvider
    op,                 \* the function called last: "Alert" or a style function
    input,              \* the props that call was given
    result,             \* what that call returned
    hooks,              \* the hook calls that call made, in order
    first,              \* TRUE when that call was the first one of the process
    kept,               \* an earlier call, kept for comparison with later ones
    colors,             \* the properties of the object colorByVariant now
    ref                 \* the object that call returned (0: none), by address

vars == <<unicodeSupported, theme, op, input, result, hooks, first, kept,
          colors, ref>>

---------------------------------------------------------------------------
(* JavaScript values *)

Undefined == <<"undefined", "">>
Str(s) == <<"string", s>>
Fn(name) == <<"function", name>>
Element(e) == <<"element", e>>

TypeOf(v) == v[1]

\* ToBoolean of a value: undefined and the empty string are falsy.
Truthy(v) ==
    CASE TypeOf(v) = "undefined" -> FALSE
      [] TypeOf(v) = "string" -> v[2] # ""
      [] OTHER -> TRUE

\* a && b
AndAnd(a, b) == IF Truthy(a) THEN b ELSE a

\* Properties every object literal inherits from Object.prototype.
ObjectPrototypeKeys == {"toString", "constructor", "valueOf", "hasOwnProperty"}

\* Mutant of Lookup: a missing key falls back to the entry of info
\* (table[key] ?? table.info).
Lookup_WithDefault(table, key) ==
    IF key \in DOMAIN table THEN Str(table[key]) ELSE Str(table.info)

\* Mutant of Lookup: only own properties are read
\* (Object.hasOwn(table, key) ? table[key] : undefined).
Lookup_OwnOnly(table, key) ==
    IF key \in DOMAIN table THEN Str(table[key]) ELSE Undefined

\* table[key] on an object literal whose own properties hold strings.
Lookup(table, key) ==
    IF key \in DOMAIN table THEN Str(table[key])
    ELSE IF key \in ObjectPrototypeKeys THEN Fn(key)
    ELSE Undefined

---------------------------------------------------------------------------
(* Inputs *)

Variants == {"info", "success", "error", "warning"}

\* Values the type AlertProps["variant"] excludes but a caller can pass at
\* run time: a key of no table, and a key inherited from Object.prototype.
OutOfSetVariants == {"danger", "toString"}

AnyVariant == Variants \cup OutOfSetVariants

Titles == {Undefined, Str(""), Str(" "), Str("OK")}

Childrens == {Str(""), Str("   "), Str("Message"),
              Element("Box:Element content"), Undefined}

Themes == {"default", "custom"}

---------------------------------------------------------------------------
(* themes/alert-theme.tsx *)

colorByVariant ==
    [info |-> "blue", success |-> "green", error |-> "red", warning |-> "yellow"]

\* Mutant of container: the colours of error and warning are exchanged.
container_SwappedColors(props) ==
    [flexGrow |-> 1,
     borderStyle |-> "round",
     borderColor |->
        Lookup([info |-> "blue", success |-> "green",
                error |-> "yellow", warning |-> "red"], props.variant),
     gap |-> 1,
     paddingX |-> 1]

\* Mutant of container: the gap between icon slot and content slot is left out.
container_NoGap(props) ==
    [flexGrow |-> 1,
     borderStyle |-> "round",
     borderColor |-> Lookup(colorByVariant, props.variant),
     paddingX |-> 1]

\* alertTheme.styles.*
container(props) ==
    [flexGrow |-> 1,
     borderStyle |-> "round",
     borderColor |-> Lookup(colors, props.variant),
     gap |-> 1,
     paddingX |-> 1]

\* Mutant of iconContainer: the icon slot may shrink.
iconContainer_Shrinks == [flexShrink |-> 1]

iconContainer == [flexShrink |-> 0]

\* Mutant of icon: the icon has a colour table of its own, which differs
\* from colorByVariant for warning.
icon_OwnTable(props) ==
    [color |-> Lookup([info |-> "blue", success |-> "green",
                       error |-> "red", warning |-> "orange"], props.variant)]

\* Mutant of icon: without Unicode support the icon is left uncoloured.
icon_PlainWithoutUnicode(props) ==
    [color |-> IF unicodeSupported
               THEN Lookup(colorByVariant, props.variant)
               ELSE Undefined]

\* Mutant of icon: the style record is memoised without regard to the
\* variant, and returned again while icon is called in a row.
icon_Memoised(props) ==
    IF op = "icon" THEN result ELSE [color |-> Lookup(colorByVariant, props.variant)]

icon(props) == [color |-> Lookup(colors, props.variant)]

\* Mutant of content: the minimum width is left out.
content_NoMinWidth ==
    [flexShrink |-> 1, flexGrow |-> 1, flexDirection |-> "column", gap |-> 1]

content ==
    [flexShrink |-> 1, flexGrow |-> 1, minWidth |-> 0,
     flexDirection |-> "column", gap |-> 1]

title == [bold |-> TRUE]

\* The empty record {}.
message == <<>>

\* alertTheme.config: the object literal alertTheme has the one property
\* styles, so that reading config yields undefined.
config == Undefined

\* alertTheme.styles[name]
styles(name) == IF name \in {"container", "iconContainer", "icon", "content",
                              "title", "message"}
                THEN Fn(name)
                ELSE IF name \in ObjectPrototypeKeys THEN Fn(name) ELSE Undefined

\* The names of the style functions of alertTheme.styles.
StyleNames == {"container", "iconContainer", "icon", "content", "title", "message"}

---------------------------------------------------------------------------
(* Collaborators of Alert: tinky-figures and tinky-theme *)

\* The two figure sets of tinky-figures, as far as Alert reads them.
unicodeFigures ==
    [info |-> "U+2139", tick |-> "U+2714", cross |-> "U+2718", warning |-> "U+26A0"]

asciiFigures ==
    [info |-> "i", tick |-> "U+221A", cross |-> "U+00D7", warning |-> "U+203C"]

\* Mutant of useFigures: the test of the capability is inverted.
useFigures_Inverted == IF unicodeSupported THEN asciiFigures ELSE unicodeFigures

\* useFigures(): the figure set of the running terminal.
useFigures == IF unicodeSupported THEN unicodeFigures ELSE asciiFigures

\* The container override of the custom theme of the theme-integration test.
customContainer == [borderStyle |-> "double"]

\* useComponentTheme("Alert", alertTheme, props): the container style the
\* theme system resolves for the component under the installed theme.
useComponentTheme(name, props) ==
    IF theme = "custom" /\ name = "Alert" THEN customContainer ELSE container(props)

---------------------------------------------------------------------------
(* components/Alert.tsx *)

Box(props, children) == [type |-> "Box", props |-> props, children |-> children]
Text(props, children) == [type |-> "Text", props |-> props, children |-> children]

\* Mutant of iconMap: tick and cross are exchanged.
iconMap_SwappedTickCross(figures) ==
    [info |-> figures.info,
     success |-> figures.cross,
     error |-> figures.tick,
     warning |-> figures.warning]

\* Mutant of iconMap: the entry of warning is missing.
iconMap_NoWarning(figures) ==
    [info |-> figures.info,
     success |-> figures.tick,
     error |-> figures.cross]

iconMap(figures) ==
    [info |-> figures.info,
     success |-> figures.tick,
     error |-> figures.cross,
     warning |-> figures.warning]

\* Mutant of IconSlot: the icon text is given the style of the title.
IconSlot_TitleStyle(props, glyph) ==
    Element(Box(iconContainer, <<Element(Text(title, <<glyph>>))>>))

\* <Box {...iconContainer()}><Text {...icon(props)}>{icon}</Text></Box>
IconSlot(props, glyph) ==
    Element(Box(iconContainer, <<Element(Text(icon(props), <<glyph>>))>>))

\* Mutant of TitleNode: the title is tested against undefined only
\* (title !== undefined && ...).
TitleNode_DefinedCheck(t) ==
    IF t # Undefined THEN Element(Text(title, <<t>>)) ELSE t

\* Mutant of TitleNode: the title is trimmed before it is tested
\* (title?.trim() && ...).
TitleNode_Trimmed(t) ==
    IF t = Str(" ") THEN Str("") ELSE AndAnd(t, Element(Text(title, <<t>>)))

\* {title && <Text {...title()}>{title}</Text>}
TitleNode(t) == AndAnd(t, Element(Text(title, <<t>>)))

\* Mutant of MessageNode: the children are made a trimmed string
\* (String(children).trim()).
MessageNode_Stringified(c) ==
    Element(Text(message,
        << CASE TypeOf(c) = "string" -> (IF c[2] = "   " THEN Str("") ELSE c)
             [] TypeOf(c) = "undefined" -> Str("undefined")
             [] OTHER -> Str("[object Object]") >>))

\* Mutant of MessageNode: the message node is emitted for truthy children
\* only ({children && <Text ...>}).
MessageNode_SkipEmpty(c) == AndAnd(c, Element(Text(message, <<c>>)))

\* Mutant of MessageNode: absent children are replaced by an empty string
\* (children ?? "").
MessageNode_Fallback(c) ==
    Element(Text(message, <<IF TypeOf(c) = "undefined" THEN Str("") ELSE c>>))

\* <Text {...message()}>{children}</Text>
MessageNode(c) == Element(Text(message, <<c>>))

\* Mutant of ContentSlot: the message is placed above the title.
ContentSlot_MessageFirst(t, c) ==
    Element(Box(content, <<MessageNode(c), TitleNode(t)>>))

\* Mutant of ContentSlot: the spacing of the stack is dropped when there is
\* no title (gap: title ? 1 : 0).
ContentSlot_GapByTitle(t, c) ==
    Element(Box([content EXCEPT !.gap = IF Truthy(t) THEN 1 ELSE 0],
                <<TitleNode(t), MessageNode(c)>>))

\* <Box {...content()}> title? message </Box>
ContentSlot(t, c) == Element(Box(content, <<TitleNode(t), MessageNode(c)>>))

\* Mutant of Alert: the content slot is placed before the icon slot.
Alert_ContentFirst(c, variant, t) ==
    LET props == [variant |-> variant]
        glyph == Lookup(iconMap(useFigures), variant)
    IN  Box(container(props), <<ContentSlot(t, c), IconSlot(props, glyph)>>)

\* Mutant of Alert: the icon is looked up under the title when there is one
\* (iconMap[title ?? variant]).
Alert_IconByTitle(c, variant, t) ==
    LET props == [variant |-> variant]
        key == IF TypeOf(t) = "string" THEN t[2] ELSE variant
        glyph == Lookup(iconMap(useFigures), key)
    IN  Box(container(props), <<IconSlot(props, glyph), ContentSlot(t, c)>>)

\* Mutant of Alert: the glyph is kept in a module-level variable and reused
\* by the renders that follow a render.
Alert_GlyphReused(c, variant, t) ==
    LET props == [variant |-> variant]
        glyph == IF op = "Alert"
                 THEN result.children[1][2].children[1][2].children[1]
                 ELSE Lookup(iconMap(useFigures), variant)
    IN  Box(container(props), <<IconSlot(props, glyph), ContentSlot(t, c)>>)

\* The element tree Alert returns.
Alert(c, variant, t) ==
    LET props == [variant |-> variant]
        figures == useFigures
        glyph == Lookup(iconMap(figures), variant)
    IN  Box(container(props), <<IconSlot(props, glyph), ContentSlot(t, c)>>)

\* Mutant of AlertHooks: the figures are read before the theme.
AlertHooks_FiguresFirst(variant) ==
    << <<"useFigures">>, <<"useComponentTheme", "Alert", variant>> >>

\* The hooks Alert calls, in call order.
AlertHooks(variant) ==
    << <<"useComponentTheme", "Alert", variant>>, <<"useFigures">> >>

\* What React makes a node of: a child that is undefined or the empty
\* string yields no node.
IsNode(child) == TypeOf(child) \notin {"undefined"} /\ child # Str("")

Nodes(children) == SelectSeq(children, IsNode)

---------------------------------------------------------------------------
(* The state machine *)

NoProps == [variant |-> "", title |-> Undefined, children |-> Undefined]

StyleProps(v) == [variant |-> v, title |-> Undefined, children |-> Undefined]

\* The last call as one value.
Observation ==
    [op |-> op, input |-> input, result |-> result, hooks |-> hooks,
     first |-> first, unicodeSupported |-> unicodeSupported, ref |-> ref]

NoObservation ==
    [op |-> "none", input |-> NoProps, result |-> <<>>, hooks |-> <<>>,
     first |-> FALSE, unicodeSupported |-> FALSE, ref |-> 0]

\* Mutant of colorByVariantAfter: a variant the table lacks is entered
\* with the colour of info (colorByVariant[variant] ??= "blue").
colorByVariantAfter_Defaulting(table, variant) ==
    [k \in DOMAIN table \cup {variant} |->
        IF k \in DOMAIN table THEN table[k] ELSE "blue"]

\* What colorByVariant holds after a style function was called with variant:
\* container and icon read colorByVariant[variant] and assign nothing.
colorByVariantAfter(table, variant) == table

\* Mutant of Allocate: the record handed out before is handed out again.
Allocate_Reused == IF kept.ref = 0 THEN 1 ELSE kept.ref

\* The object an object literal ({...}) or a JSX expression evaluates to: a
\* new one, at an address no object in use has.
Allocate == IF kept.ref = 1 THEN 2 ELSE 1

\* What calling a value that is no function throws.
TypeError == [type |-> "TypeError"]

\* Calling alertTheme.styles[name]: the record fn returns, or the TypeError
\* of calling what is no function.
CallStyle(name, record) ==
    IF TypeOf(styles(name)) = "function" THEN record ELSE TypeError

Init ==
    /\ unicodeSupported \in BOOLEAN
    /\ theme \in Themes
    /\ op = "none"
    /\ input = NoProps
    /\ result = <<>>
    /\ hooks = <<>>
    /\ first = FALSE
    /\ kept = NoObservation
    /\ colors = colorByVariant
    /\ ref = 0

\* <Alert variant={v} title={t}>{c}</Alert> is rendered.
Render(v, t, c) ==
    /\ op' = "Alert"
    /\ input' = [variant |-> v, title |-> t, children |-> c]
    /\ hooks' = AlertHooks(v)
    /\ result' = Alert(c, v, t)
    /\ ref' = Allocate
    /\ colors' = colorByVariantAfter(colors, v)
    /\ first' = (op = "none")
    /\ UNCHANGED <<unicodeSupported, theme, kept>>

\* alertTheme.styles.container({variant: v})
CallContainer(v) ==
    /\ op' = "container"
    /\ input' = StyleProps(v)
    /\ result' = CallStyle("container", container([variant |-> v]))
    /\ ref' = Allocate
    /\ hooks' = <<>>
    /\ first' = (op = "none")
    /\ colors' = colorByVariantAfter(colors, v)
    /\ UNCHANGED <<unicodeSupported, theme, kept>>

\* alertTheme.styles.icon({variant: v})
CallIcon(v) ==
    /\ op' = "icon"
    /\ input' = StyleProps(v)
    /\ result' = CallStyle("icon", icon([variant |-> v]))
    /\ ref' = Allocate
    /\ hooks' = <<>>
    /\ first' = (op = "none")
    /\ colors' = colorByVariantAfter(colors, v)
    /\ UNCHANGED <<unicodeSupported, theme, kept>>

CallIconContainer ==
    /\ op' = "iconContainer"
    /\ input' = NoProps
    /\ result' = CallStyle("iconContainer", iconContainer)
    /\ ref' = Allocate
    /\ hooks' = <<>>
    /\ first' = (op = "none")
    /\ UNCHANGED <<unicodeSupported, theme, kept, colors>>

CallContent ==
    /\ op' = "content"
    /\ input' = NoProps
    /\ result' = CallStyle("content", content)
    /\ ref' = Allocate
    /\ hooks' = <<>>
    /\ first' = (op = "none")
    /\ UNCHANGED <<unicodeSupported, theme, kept, colors>>

CallTitle ==
    /\ op' = "title"
    /\ input' = NoProps
    /\ result' = CallStyle("title", title)
    /\ ref' = Allocate
    /\ hooks' = <<>>
    /\ first' = (op = "none")
    /\ UNCHANGED <<unicodeSupported, theme, kept, colors>>

CallMessage ==
    /\ op' = "message"
    /\ input' = NoProps
    /\ result' = CallStyle("message", message)
    /\ ref' = Allocate
    /\ hooks' = <<>>
    /\ first' = (op = "none")
    /\ UNCHANGED <<unicodeSupported, theme, kept, colors>>

\* alertTheme.config({variant: v}): config is read from alertTheme and called.
CallConfig(v) ==
    /\ TypeOf(config) # "function"
    /\ op' = "config"
    /\ input' = StyleProps(v)
    /\ result' = TypeError
    /\ ref' = Allocate
    /\ hooks' = <<>>
    /\ first' = (op = "none")
    /\ UNCHANGED <<unicodeSupported, theme, kept, colors>>

Next ==
    \/ \E v \in AnyVariant, t \in Titles, c \in Childrens : Render(v, t, c)
    \/ \E v \in AnyVariant : CallContainer(v)
    \/ \E v \in AnyVariant : CallIcon(v)
    \/ CallIconContainer
    \/ CallContent
    \/ CallTitle
    \/ CallMessage
    \/ \E v \in AnyVariant : CallConfig(v)

Spec == Init /\ [][Next]_vars

---------------------------------------------------------------------------
(* Two calls side by side: a call is kept and compared with a later one *)

\* The inputs of the calls that are compared.
PairVariants == {"info", "success", "danger"}
PairTitles == {Undefined, Str("OK")}
PairChildrens == {Str("Message"), Str("")}

\* The last call is kept.
Keep ==
    /\ op # "none"
    /\ kept' = Observation
    /\ UNCHANGED <<unicodeSupported, theme, op, input, result, hooks, first,
                   colors, ref>>

\* The process is started again, in a terminal with capability u: no call
\* has been made in it yet.
Environment(u) ==
    /\ unicodeSupported' = u
    /\ op' = "none"
    /\ input' = NoProps
    /\ result' = <<>>
    /\ hooks' = <<>>
    /\ first' = FALSE
    /\ colors' = colorByVariant
    /\ ref' = 0
    /\ UNCHANGED <<theme, kept>>

NextPair ==
    \/ \E v \in PairVariants, t \in PairTitles, c \in PairChildrens : Render(v, t, c)
    \/ \E v \in PairVariants : CallContainer(v)
    \/ \E v \in PairVariants : CallIcon(v)
    \/ CallIconContainer
    \/ CallContent
    \/ CallTitle
    \/ CallMessage
    \/ Keep
    \/ \E u \in BOOLEAN : Environment(u)

SpecPair == Init /\ [][NextPair]_vars

\* What a caller leaves of a record or layout it was given and wrote to.
Tampered == [tampered |-> TRUE]

\* The caller writes to the result it kept: to the one object at kept.ref,
\* which the last call returned too when ref is that address.
Mutate ==
    /\ kept.op # "none"
    /\ kept.result # Tampered
    /\ kept' = [kept EXCEPT !.result = Tampered]
    /\ result' = IF ref = kept.ref THEN Tampered ELSE result
    /\ UNCHANGED <<unicodeSupported, theme, op, input, hooks, first, colors, ref>>

NextFresh ==
    \/ \E v \in PairVariants, t \in PairTitles, c \in PairChildrens : Render(v, t, c)
    \/ \E v \in PairVariants : CallContainer(v)
    \/ \E v \in PairVariants : CallIcon(v)
    \/ CallIconContainer
    \/ CallContent
    \/ CallTitle
    \/ CallMessage
    \/ Keep
    \/ \E u \in BOOLEAN : Environment(u)
    \/ Mutate

SpecFresh == Init /\ [][NextFresh]_vars

---------------------------------------------------------------------------
(* Reading the layout Alert returned *)

rendered == op = "Alert"
layout == result
ContainerProps == layout.props
IconSlotNode == layout.children[1][2]
IconNode == IconSlotNode.children[1][2]
Glyph == IconNode.children[1]
ContentSlotNode == layout.children[2][2]
ContentNodes == Nodes(ContentSlotNode.children)

---------------------------------------------------------------------------
(* The tables the properties below are stated against *)

ExpectedColor(v) ==
    CASE v = "info" -> "blue"
      [] v = "success" -> "green"
      [] v = "error" -> "red"
      [] v = "warning" -> "yellow"

ExpectedUnicodeGlyph(v) ==
    CASE v = "info" -> "U+2139"
      [] v = "success" -> "U+2714"
      [] v = "error" -> "U+2718"
      [] v = "warning" -> "U+26A0"

ExpectedFallbackGlyph(v) ==
    CASE v = "info" -> "i"
      [] v = "success" -> "U+221A"
      [] v = "error" -> "U+00D7"
      [] v = "warning" -> "U+203C"

\* The emoji-style icons of the README and of tests/alert.test.tsx.
ExpectedEmoji(v) ==
    CASE v = "info" -> "U+2139 U+FE0F"
      [] v = "success" -> "U+2705"
      [] v = "error" -> "U+274C"
      [] v = "warning" -> "U+26A0 U+FE0F"

ContainerAttributes == {"flexGrow", "borderStyle", "borderColor", "gap", "paddingX"}

---------------------------------------------------------------------------
(* Properties *)

\* C1: for every variant of the closed set, styles.container({variant})
\* has borderColor blue for info, green for success, red for error and
\* yellow for warning.
C1_ContainerBorderColor ==
    (op = "container" /\ input.variant \in Variants)
        => result.borderColor = Str(ExpectedColor(input.variant))

C1_Witness ==
    /\ op = "container"
    /\ input.variant = "warning"
    /\ result.borderColor = Str("yellow")

\* C2: for every variant of the closed set, styles.icon({variant}).color
\* is the colour of the variant and equals the borderColor of the
\* container, both when the style functions are called directly and in
\* the layout of one alert.
C2_IconColorIsBorderColor ==
    /\ (op = "icon" /\ input.variant \in Variants)
          => /\ result.color = Str(ExpectedColor(input.variant))
             /\ result.color = container([variant |-> input.variant]).borderColor
    /\ (rendered /\ input.variant \in Variants)
          => /\ IconNode.props.color = Str(ExpectedColor(input.variant))
             /\ IconNode.props.color = ContainerProps.borderColor

C2_Witness ==
    /\ rendered
    /\ input.variant = "error"
    /\ IconNode.props.color = Str("red")
    /\ ContainerProps.borderColor = Str("red")

C4_EmojiIcon ==
    (rendered /\ input.variant \in Variants)
        => /\ Glyph = Str(ExpectedEmoji(input.variant))
           /\ IconNode.props.color = Str(ExpectedColor(input.variant))

\* C5: with title undefined or the empty string the content slot has no
\* title node, the message node being its only node; with a non-empty
\* title X the content slot has a title node with text X and style
\* {bold: true}.
C5_TitleGating ==
    rendered =>
        /\ input.title \in {Undefined, Str("")}
              => /\ Len(ContentNodes) = 1
                 /\ ContentNodes[1][2].children = <<input.children>>
                 /\ ~("bold" \in DOMAIN ContentNodes[1][2].props)
        /\ (TypeOf(input.title) = "string" /\ input.title[2] # "")
              => /\ Len(ContentNodes) = 2
                 /\ ContentNodes[1][2].type = "Text"
                 /\ ContentNodes[1][2].children = <<input.title>>
                 /\ ContentNodes[1][2].props = [bold |-> TRUE]

C5_Witness ==
    /\ rendered
    /\ input.title = Str("")
    /\ Len(ContentNodes) = 1
    /\ Len(ContentSlotNode.children) = 2

\* C6: for every input Alert emits exactly one message node, whose content
\* is the children value as supplied and whose style is the empty record.
C6_MessagePassThrough ==
    rendered =>
        LET n == Len(ContentNodes)
            unstyled == {i \in 1..n : DOMAIN ContentNodes[i][2].props = {}}
        IN  /\ n \in {1, 2}
            /\ unstyled = {n}
            /\ ContentNodes[n][2].type = "Text"
            /\ ContentNodes[n][2].children = <<input.children>>

C6_Witness ==
    /\ rendered
    /\ input.children = Element("Box:Element content")
    /\ input.title = Str("OK")
    /\ ContentNodes[2][2].children = <<Element("Box:Element content")>>
    /\ DOMAIN ContentNodes[2][2].props = {}

\* C7: styles.container returns exactly the attributes flexGrow = 1,
\* borderStyle = "round", gap = 1, paddingX = 1 and borderColor, so that
\* only borderColor differs between variants; the container of a rendered
\* alert carries the same attributes.
C7_ContainerAttributesFixed ==
    LET fixed(r) ==
            /\ DOMAIN r = ContainerAttributes
            /\ r.flexGrow = 1
            /\ r.borderStyle = "round"
            /\ r.gap = 1
            /\ r.paddingX = 1
    IN  /\ (op = "container" /\ input.variant \in Variants) => fixed(result)
        /\ (rendered /\ input.variant \in Variants) => fixed(ContainerProps)

C7_Witness ==
    /\ op = "container"
    /\ input.variant = "success"
    /\ DOMAIN result = ContainerAttributes
    /\ result.paddingX = 1

\* C8: when the installed theme overrides the container style of Alert,
\* the container Alert renders carries the attributes the theme system
\* resolves, for every variant.
C8_ThemeOverrideApplied ==
    (rendered /\ input.variant \in Variants)
        => ContainerProps = useComponentTheme("Alert", [variant |-> input.variant])

\* C9 (as claimed): a render with a variant outside the closed set yields
\* an error and no layout, and no alert lacks its colour or its icon.
C9_InvalidVariantRejected ==
    rendered =>
        /\ input.variant \notin Variants => result.type = "Error"
        /\ result.type = "Box"
              => /\ TypeOf(ContainerProps.borderColor) = "string"
                 /\ TypeOf(IconNode.props.color) = "string"
                 /\ TypeOf(Glyph) = "string"

\* C9 (amended): Alert does not check the variant at run time.  A render
\* with a variant outside the closed set returns the full layout, in which
\* border colour, icon colour and glyph are what the lookup of that key
\* yields and never a string: undefined unless the key names a property
\* inherited from Object.prototype.
C9_InvalidVariantRendered ==
    (rendered /\ input.variant \notin Variants) =>
        /\ result.type = "Box"
        /\ Len(result.children) = 2
        /\ Len(ContentNodes) >= 1
        /\ TypeOf(ContainerProps.borderColor) # "string"
        /\ TypeOf(IconNode.props.color) # "string"
        /\ TypeOf(Glyph) # "string"
        /\ input.variant \notin ObjectPrototypeKeys
              => /\ ContainerProps.borderColor = Undefined
                 /\ IconNode.props.color = Undefined
                 /\ Glyph = Undefined

C9_Witness ==
    /\ rendered
    /\ input.variant = "danger"
    /\ result.type = "Box"
    /\ ContainerProps.borderColor = Undefined
    /\ Glyph = Undefined

\* C10: the container of the layout has exactly two children, in this
\* order: the icon slot, holding exactly one text node with the glyph, and
\* the content slot; for every variant, with or without title.
C10_TwoTopLevelChildren ==
    rendered =>
        /\ Len(layout.children) = 2
        /\ Len(Nodes(layout.children)) = 2
        /\ IconSlotNode.type = "Box"
        /\ IconSlotNode.props = [flexShrink |-> 0]
        /\ Len(IconSlotNode.children) = 1
        /\ IconNode.type = "Text"
        /\ Len(IconNode.children) = 1
        /\ input.variant \in Variants
              => Glyph = Str(IF unicodeSupported
                             THEN ExpectedUnicodeGlyph(input.variant)
                             ELSE ExpectedFallbackGlyph(input.variant))
        /\ ContentSlotNode.type = "Box"
        /\ ContentSlotNode.props.flexDirection = "column"
        /\ ContentNodes[Len(ContentNodes)][2].children = <<input.children>>

C10_Witness ==
    /\ rendered
    /\ input.variant = "info"
    /\ input.title = Undefined
    /\ Len(layout.children) = 2
    /\ IconSlotNode.props = [flexShrink |-> 0]
    /\ ContentSlotNode.props.flexDirection = "column"

\* C11: when a title node is emitted it is the first node of the content
\* slot and the message node is the second; the content slot is a column
\* with gap 1.
C11_TitleAboveMessage ==
    rendered =>
        /\ ContentSlotNode.props.flexDirection = "column"
        /\ ContentSlotNode.props.gap = 1
        /\ Truthy(input.title)
              => /\ Len(ContentNodes) = 2
                 /\ ContentNodes[1][2].children = <<input.title>>
                 /\ ContentNodes[1][2].props = [bold |-> TRUE]
                 /\ ContentNodes[2][2].children = <<input.children>>
                 /\ DOMAIN ContentNodes[2][2].props = {}

C11_Witness ==
    /\ rendered
    /\ input.title = Str("OK")
    /\ input.children = Str("Message")
    /\ ContentNodes[1][2].children = <<Str("OK")>>
    /\ ContentNodes[2][2].children = <<Str("Message")>>

\* C14: a render with children the empty string or a whitespace-only
\* string, for any variant and any title, returns the full layout, whose
\* message node holds that string unchanged.
C14_EmptyMessageRendered ==
    (rendered /\ input.children \in {Str(""), Str("   ")}) =>
        /\ result.type = "Box"
        /\ Len(Nodes(layout.children)) = 2
        /\ Len(ContentNodes) >= 1
        /\ ContentNodes[Len(ContentNodes)][2].type = "Text"
        /\ DOMAIN ContentNodes[Len(ContentNodes)][2].props = {}
        /\ ContentNodes[Len(ContentNodes)][2].children = <<input.children>>

C14_Witness ==
    /\ rendered
    /\ input.children = Str("")
    /\ input.title = Undefined
    /\ Len(ContentNodes) = 1
    /\ ContentNodes[1][2].children = <<Str("")>>

\* C15: for each variant of the closed set and for both values of the
\* Unicode capability, border colour, icon colour and glyph are defined:
\* each is a non-empty string.
C15_Totality ==
    LET defined(x) == TypeOf(x) = "string" /\ x[2] # ""
    IN  /\ (rendered /\ input.variant \in Variants)
              => /\ defined(ContainerProps.borderColor)
                 /\ defined(IconNode.props.color)
                 /\ defined(Glyph)
        /\ (op = "container" /\ input.variant \in Variants)
              => defined(result.borderColor)
        /\ (op = "icon" /\ input.variant \in Variants)
              => defined(result.color)

C15_Witness ==
    /\ rendered
    /\ ~unicodeSupported
    /\ input.variant = "warning"
    /\ Glyph = Str("U+203C")
    /\ ContainerProps.borderColor = Str("yellow")

\* C16: alertTheme has a function config besides styles, and
\* config({variant: "error"}) returns {icon: <the cross-mark emoji>}.
C16_ConfigReturnsIcon ==
    (op = "config" /\ input.variant \in Variants)
        => /\ TypeOf(config) = "function"
           /\ result = [icon |-> Str(ExpectedEmoji(input.variant))]

\* C17 (as claimed): a render with children undefined yields an error and
\* no layout, and never a layout with an empty or fallback message node.
C17_MissingChildrenRejected ==
    (rendered /\ input.children = Undefined) => result.type = "Error"

\* C17 (amended): Alert does not check children at run time and has no
\* fallback content.  A render with children undefined returns the full
\* layout, whose message node is emitted and holds undefined.
C17_MissingChildrenRendered ==
    (rendered /\ input.children = Undefined) =>
        /\ result.type = "Box"
        /\ Len(Nodes(layout.children)) = 2
        /\ Len(ContentNodes) >= 1
        /\ ContentNodes[Len(ContentNodes)][2].type = "Text"
        /\ DOMAIN ContentNodes[Len(ContentNodes)][2].props = {}
        /\ ContentNodes[Len(ContentNodes)][2].children = <<Undefined>>

C17_Witness ==
    /\ rendered
    /\ input.children = Undefined
    /\ input.variant = "info"
    /\ result.type = "Box"
    /\ ContentNodes[Len(ContentNodes)][2].children = <<Undefined>>

\* C20: styles.iconContainer() returns exactly {flexShrink: 0}, and that is
\* the style of the icon slot of every rendered alert.
C20_IconContainerFixed ==
    /\ op = "iconContainer"
          => /\ DOMAIN result = {"flexShrink"}
             /\ result.flexShrink = 0
    /\ rendered
          => /\ DOMAIN IconSlotNode.props = {"flexShrink"}
             /\ IconSlotNode.props.flexShrink = 0

C20_Witness ==
    /\ op = "iconContainer"
    /\ result = [flexShrink |-> 0]

---------------------------------------------------------------------------
(* Reading the layout of the kept call *)

keptRendered == kept.op = "Alert"
KeptContainerProps == kept.result.props
KeptIconSlotNode == kept.result.children[1][2]
KeptIconNode == KeptIconSlotNode.children[1][2]
KeptGlyph == KeptIconNode.children[1]
KeptContentSlotNode == kept.result.children[2][2]

\* C12: for every variant of the closed set, border colour and icon colour
\* of two renders of that variant are the same whether Unicode is supported
\* or not; between two renders of the same input that differ in the
\* capability, nothing but the glyph differs.
C12_ColourStability ==
    (rendered /\ keptRendered /\ input.variant \in Variants
              /\ kept.input.variant = input.variant) =>
        /\ ContainerProps.borderColor = KeptContainerProps.borderColor
        /\ IconNode.props.color = KeptIconNode.props.color
        /\ kept.input = input
              => /\ ContainerProps = KeptContainerProps
                 /\ IconSlotNode.props = KeptIconSlotNode.props
                 /\ IconNode.props = KeptIconNode.props
                 /\ ContentSlotNode = KeptContentSlotNode

C12_Witness ==
    /\ rendered
    /\ keptRendered
    /\ input.variant = "success"
    /\ kept.input = input
    /\ kept.unicodeSupported
    /\ ~unicodeSupported
    /\ Glyph # KeptGlyph
    /\ IconNode.props.color = Str("green")
    /\ KeptIconNode.props.color = Str("green")

\* C13: two renders that agree on variant and Unicode capability produce
\* the same glyph, whatever their titles and children.
C13_GlyphIgnoresTitleAndChildren ==
    (rendered /\ keptRendered
              /\ kept.input.variant = input.variant
              /\ kept.unicodeSupported = unicodeSupported)
        => Glyph = KeptGlyph

C13_Witness ==
    /\ rendered
    /\ keptRendered
    /\ input.variant = "info"
    /\ kept.input.variant = "info"
    /\ kept.unicodeSupported = unicodeSupported
    /\ kept.input.title # input.title
    /\ kept.input.children # input.children
    /\ Glyph = KeptGlyph

\* C18: two calls of Alert with equal variant, title, children and Unicode
\* capability return equal layouts, and two calls of one style function
\* with the same variant return equal records.
C18_Determinism ==
    (op # "none" /\ kept.op = op /\ kept.input = input
                 /\ kept.unicodeSupported = unicodeSupported)
        => result = kept.result

C18_Witness ==
    /\ rendered
    /\ keptRendered
    /\ ~first
    /\ ~kept.first
    /\ kept.input = input
    /\ input.title = Str("OK")
    /\ kept.unicodeSupported = unicodeSupported
    /\ result = kept.result

\* C19: a render made after any other calls returns the layout the same
\* render returns as the first call of the process, and a render leaves the
\* installed theme and the Unicode capability as they are.
C19_RendersIndependent ==
    /\ [](  (rendered /\ keptRendered /\ kept.first /\ kept.input = input
                      /\ kept.unicodeSupported = unicodeSupported)
            => result = kept.result)
    /\ [][op' = "Alert" => UNCHANGED <<unicodeSupported, theme>>]_vars

C19_Witness ==
    /\ rendered
    /\ ~first
    /\ keptRendered
    /\ kept.first
    /\ kept.input = input
    /\ input.variant = "success"
    /\ kept.unicodeSupported = unicodeSupported
    /\ result = kept.result

---------------------------------------------------------------------------

\* C21: styles.content() returns exactly {flexShrink: 1, flexGrow: 1,
\* minWidth: 0, flexDirection: "column", gap: 1}, and that is the style of
\* the content slot of every render, whatever variant, title and children.
C21_ContentFixed ==
    LET fixed(r) ==
            /\ DOMAIN r = {"flexShrink", "flexGrow", "minWidth", "flexDirection", "gap"}
            /\ r.flexShrink = 1
            /\ r.flexGrow = 1
            /\ r.minWidth = 0
            /\ r.flexDirection = "column"
            /\ r.gap = 1
    IN  /\ op = "content" => fixed(result)
        /\ rendered => fixed(ContentSlotNode.props)

C21_Witness ==
    /\ op = "content"
    /\ DOMAIN result = {"flexShrink", "flexGrow", "minWidth", "flexDirection", "gap"}
    /\ result.minWidth = 0

\* C22: alertTheme.styles holds the six functions container, iconContainer,
\* icon, content, title and message, each call of one returns a style
\* record, and Alert gives each node the style of its function: container
\* box, icon box, icon text, content box, title text, message text.
C22_SixStyleFunctionsApplied ==
    /\ \A name \in {"container", "iconContainer", "icon", "content", "title", "message"} :
          TypeOf(styles(name)) = "function"
    /\ op \in {"container", "iconContainer", "icon", "content", "title", "message"}
          => result # TypeError
    /\ (rendered /\ input.variant \in Variants) =>
          /\ DOMAIN ContainerProps = ContainerAttributes
          /\ ContainerProps.borderColor = Str(ExpectedColor(input.variant))
          /\ DOMAIN IconSlotNode.props = {"flexShrink"}
          /\ DOMAIN IconNode.props = {"color"}
          /\ IconNode.props.color = Str(ExpectedColor(input.variant))
          /\ DOMAIN ContentSlotNode.props =
                {"flexShrink", "flexGrow", "minWidth", "flexDirection", "gap"}
          /\ DOMAIN ContentNodes[Len(ContentNodes)][2].props = {}
          /\ Len(ContentNodes) = 2 => DOMAIN ContentNodes[1][2].props = {"bold"}

C22_Witness ==
    /\ rendered
    /\ input.variant = "error"
    /\ input.title = Str("OK")
    /\ DOMAIN IconNode.props = {"color"}
    /\ DOMAIN ContentNodes[1][2].props = {"bold"}
    /\ DOMAIN ContentNodes[2][2].props = {}

ExpectedFigureKey(v) ==
    CASE v = "info" -> "info"
      [] v = "success" -> "tick"
      [] v = "error" -> "cross"
      [] v = "warning" -> "warning"

C27_HookOrder ==
    rendered =>
        /\ Len(hooks) = 2
        /\ hooks[1] = <<"useComponentTheme", "Alert", input.variant>>
        /\ hooks[2] = <<"useFigures">>

C27_Witness ==
    /\ rendered
    /\ input.title = Str("")
    /\ input.variant = "warning"
    /\ Len(hooks) = 2
    /\ hooks[2] = <<"useFigures">>

\* C28: a title of whitespace only counts as present: it gets a bold title
\* node holding that text above the message; undefined and the empty string
\* alone suppress the title node.
C28_WhitespaceTitlePresent ==
    rendered =>
        /\ input.title = Str(" ")
              => /\ Len(ContentNodes) = 2
                 /\ ContentNodes[1][2].children = <<Str(" ")>>
                 /\ ContentNodes[1][2].props = [bold |-> TRUE]
                 /\ ContentNodes[2][2].children = <<input.children>>
        /\ Len(ContentNodes) = 1 <=> input.title \in {Undefined, Str("")}

C28_Witness ==
    /\ rendered
    /\ input.title = Str(" ")
    /\ Len(ContentNodes) = 2
    /\ ContentNodes[1][2].children = <<Str(" ")>>

\* C29 (as claimed): for every variant string outside the closed set,
\* container and icon return a record whose colour is undefined, the other
\* attributes of the container being those of a valid variant.
C29_OutOfSetColourUndefined ==
    /\ (op = "container" /\ input.variant \notin Variants)
          => /\ result.borderColor = Undefined
             /\ result.flexGrow = 1
             /\ result.borderStyle = "round"
             /\ result.gap = 1
             /\ result.paddingX = 1
    /\ (op = "icon" /\ input.variant \notin Variants)
          => result.color = Undefined

\* C29 (amended): for every variant string outside the closed set,
\* container and icon return their record without throwing, the other
\* attributes of the container being those of a valid variant; the colour
\* is undefined unless the string names a property inherited from
\* Object.prototype, and is then that inherited member; it is never a
\* string.
C29_OutOfSetColourLookup ==
    LET colour(x, v) ==
            /\ TypeOf(x) # "string"
            /\ v \notin ObjectPrototypeKeys => x = Undefined
            /\ v \in ObjectPrototypeKeys => x = Fn(v)
    IN  /\ (op = "container" /\ input.variant \notin Variants)
              => /\ DOMAIN result = ContainerAttributes
                 /\ colour(result.borderColor, input.variant)
                 /\ result.flexGrow = 1
                 /\ result.borderStyle = "round"
                 /\ result.gap = 1
                 /\ result.paddingX = 1
        /\ (op = "icon" /\ input.variant \notin Variants)
              => /\ DOMAIN result = {"color"}
                 /\ colour(result.color, input.variant)

C29_Witness ==
    /\ op = "container"
    /\ input.variant = "toString"
    /\ result.borderColor = Fn("toString")
    /\ result.paddingX = 1

---------------------------------------------------------------------------

\* C24: every style record and every layout is a new object: a call never
\* returns the object an earlier call returned and the caller kept, and
\* what a call returns is what the function computes, whatever the caller
\* wrote to a result it kept.
C24_FreshPerCall ==
    /\ []((op # "none" /\ ref # kept.ref) =>
            /\ result # Tampered
            /\ op = "message" => result = <<>>
            /\ op = "title" => result = [bold |-> TRUE]
            /\ op = "iconContainer" => result = [flexShrink |-> 0]
            /\ op = "icon" => DOMAIN result = {"color"}
            /\ op = "content" => result.minWidth = 0
            /\ op = "container" => DOMAIN result = ContainerAttributes
            /\ op = "Alert" => result.type = "Box")
    /\ [][(op' # "none" /\ kept' = kept) => ref' # kept.ref]_vars

C24_Witness ==
    /\ kept.op = "message"
    /\ kept.result = Tampered
    /\ op = "message"
    /\ ref # 0
    /\ ref # kept.ref
    /\ result = <<>>

\* C25: colorByVariant is never written: after every sequence of calls of
\* the style functions and renders of Alert, with variants of the closed
\* set or not, it maps exactly info, success, error and warning to blue,
\* green, red and yellow.
C25_ColourTableUnchanged ==
    colors = [info |-> "blue", success |-> "green",
              error |-> "red", warning |-> "yellow"]

C25_Witness ==
    /\ op = "container"
    /\ input.variant = "danger"
    /\ ~first
    /\ DOMAIN colors = {"info", "success", "error", "warning"}
    /\ colors.warning = "yellow"

KeptContentNodes == Nodes(KeptContentSlotNode.children)

\* C26: the props Alert hands to the theme hook hold the variant only, and
\* two renders that differ only in title or children give every node the
\* same style: container, icon slot, icon, content slot, message, and title
\* where both have one.
C26_StyleIgnoresTitleAndChildren ==
    /\ rendered => hooks[1] = <<"useComponentTheme", "Alert", input.variant>>
    /\ (/\ rendered
        /\ keptRendered
        /\ kept.input.variant = input.variant
        /\ kept.unicodeSupported = unicodeSupported)
          => /\ ContainerProps = KeptContainerProps
             /\ IconSlotNode.props = KeptIconSlotNode.props
             /\ IconNode.props = KeptIconNode.props
             /\ ContentSlotNode.props = KeptContentSlotNode.props
             /\ ContentNodes[Len(ContentNodes)][2].props
                   = KeptContentNodes[Len(KeptContentNodes)][2].props
             /\ (Len(ContentNodes) = 2 /\ Len(KeptContentNodes) = 2)
                   => ContentNodes[1][2].props = KeptContentNodes[1][2].props

C26_Witness ==
    /\ rendered
    /\ keptRendered
    /\ kept.input.variant = input.variant
    /\ kept.unicodeSupported = unicodeSupported
    /\ kept.input.title = Undefined
    /\ input.title = Str("OK")
    /\ kept.input.children # input.children
    /\ ContentSlotNode.props = KeptContentSlotNode.props

====
